---- MODULE Spec2Model ----
(***************************************************************************)
(* Guzo ride booking: the hosted database (tables, check constraints,      *)
(* row-level-security policies) and the browser handlers that match a      *)
(* customer's custom request to a driver's trip.                           *)
(*                                                                         *)
(* A uuid or text column holds a string, null = "null"; a numeric column   *)
(* holds an integer, null = NullNum.  Prices are in whole ETB.             *)
(***************************************************************************)
EXTENDS Integers, Sequences, FiniteSets, TLC

(* ------------------------------ bounds --------------------------------- *)
\* largest available_seats a driver enters, and largest seat count a client asks for
MaxSeats == 2
\* number of booking rows the database may hold
MaxBookings == 2
\* longest text typed into the "seats needed" field
MaxEntryLen == 2

(* ------------------------------ values --------------------------------- *)
null == "null"
NullNum == 0 - 1000
NaN == 0 - 2000

Admins == {"a1", "a2"}
Drivers == {"d1"}
Customers == {"c1"}
Users == Admins \cup Drivers \cup Customers

BookingNames == <<"b1", "b2", "b3", "b4">>
BookingIds == {BookingNames[i] : i \in 1..MaxBookings}
TripIds == {"t1"}
Prices == {3, 5}

BookingStatus == {"pending", "assigned", "completed", "cancelled"}
BookingType == {"seat", "whole_car", "custom_request"}
TripStatus == {"scheduled", "in_progress", "completed", "cancelled"}
UserRole == {"admin", "driver", "customer"}

(* ------------------------------ state ---------------------------------- *)
VARIABLES
    profiles,        \* table profiles: user id -> row
    bookings,        \* table bookings: id -> row (the rows that exist)
    driver_trips,    \* table driver_trips: id -> row
    customRequests,  \* per client: fetched pending requests (AdminDashboard customRequests, DriverDashboard pendingRequests)
    driverTrips,     \* per client: fetched trips (AdminDashboard driverTrips, DriverDashboard myTrips)
    customRequest,   \* per customer: the seats_needed field of the request form
    call,            \* per client: what the running match handler captured
    pc,              \* per client: position in the match handler
    last,            \* the last handler step or API request, and how it ended
    sessions,        \* the clients whose dashboard is open
    catalog,         \* the database's catalog: types, tables, columns, policies, ...
    migration,       \* the run of the migration file: which run, the next step, errors raised
    auth_users,      \* table auth.users: user id -> raw_user_meta_data
    login            \* the Login page: loading, error, where it navigated, position in handleLogin

vars == <<profiles, bookings, driver_trips, customRequests, driverTrips, customRequest,
          call, pc, last, sessions, catalog, migration,
          auth_users, login>>

dbVars == <<profiles, bookings, driver_trips>>
systemVars == <<catalog, migration, auth_users, login>>
pageVars == <<customRequests, driverTrips, customRequest, call, pc, sessions>>
clientVars == <<customRequests, driverTrips, customRequest, call, pc, sessions, systemVars>>

(* --------------------------- JavaScript -------------------------------- *)
Digits == {"0", "1", "2", "3", "4", "5", "6", "7", "8", "9"}
DigitVal(c) == CASE c = "0" -> 0 [] c = "1" -> 1 [] c = "2" -> 2 [] c = "3" -> 3 [] c = "4" -> 4
                 [] c = "5" -> 5 [] c = "6" -> 6 [] c = "7" -> 7 [] c = "8" -> 8 [] c = "9" -> 9

RECURSIVE ParseDigits(_, _, _)
ParseDigits(s, i, acc) ==
    IF i > Len(s) \/ s[i] \notin Digits THEN acc
    ELSE ParseDigits(s, i + 1, acc * 10 + DigitVal(s[i]))

RECURSIVE SkipSpace(_, _)
SkipSpace(s, i) == IF i <= Len(s) /\ s[i] = " " THEN SkipSpace(s, i + 1) ELSE i

\* parseInt(text): leading blanks, an optional sign, then the leading digits; NaN without a digit
parseInt(s) ==
    LET i == SkipSpace(s, 1)
        signed == i <= Len(s) /\ s[i] \in {"-", "+"}
        j == IF signed THEN i + 1 ELSE i
    IN  IF j > Len(s) \/ s[j] \notin Digits THEN NaN
        ELSE IF signed /\ s[i] = "-" THEN 0 - ParseDigits(s, j, 0)
        ELSE ParseDigits(s, j, 0)

\* a number in a boolean position: 0, NaN, null and undefined are falsy
Truthy(n) == n # 0 /\ n # NaN /\ n # NullNum

\* a || b on numbers
Or(a, b) == IF Truthy(a) THEN a ELSE b

\* null in arithmetic is 0
Num(n) == IF n = NullNum THEN 0 ELSE n

\* a row with some columns replaced
Patch(row, patch) == [f \in DOMAIN row |-> IF f \in DOMAIN patch THEN patch[f] ELSE row[f]]

(* --------------------- row-level-security policies --------------------- *)
\* exists (select 1 from profiles where id = auth.uid() and role = 'admin')
IsAdmin(uid) == uid \in DOMAIN profiles /\ profiles[uid].role = "admin"

\* variant: a driver also sees the pending custom requests
BookingSelectPolicyPending(uid, row) ==
    \/ IsAdmin(uid)
    \/ row.assigned_driver_id = uid
    \/ row.customer_id = uid
    \/ /\ uid \in DOMAIN profiles
       /\ profiles[uid].role = "driver"
       /\ row.booking_type = "custom_request"
       /\ row.status = "pending"
       /\ row.driver_trip_id = null

\* bookings for select: admins, the assigned driver, the customer
BookingSelectPolicy(uid, row) ==
    \/ IsAdmin(uid)
    \/ row.assigned_driver_id = uid
    \/ row.customer_id = uid

\* bookings for insert (with check): admins, or customer_id = auth.uid()
BookingInsertPolicy(uid, row) ==
    \/ IsAdmin(uid)
    \/ row.customer_id = uid

\* bookings for update (using; also the check on the new row): admins, the assigned driver
BookingUpdatePolicy(uid, row) ==
    \/ IsAdmin(uid)
    \/ row.assigned_driver_id = uid

\* bookings for delete: admins
BookingDeletePolicy(uid, row) == IsAdmin(uid)

\* variant: without the policy "Everyone can view scheduled trips"
TripSelectPolicyOwn(uid, row) ==
    \/ row.driver_id = uid
    \/ IsAdmin(uid)

\* driver_trips for select: scheduled trips, the trip's driver, admins
TripSelectPolicy(uid, row) ==
    \/ row.status = "scheduled"
    \/ row.driver_id = uid
    \/ IsAdmin(uid)

\* driver_trips for insert (with check): driver_id = auth.uid()
TripInsertPolicy(uid, row) == row.driver_id = uid

\* driver_trips for update: the trip's driver, admins
TripUpdatePolicy(uid, row) ==
    \/ row.driver_id = uid
    \/ IsAdmin(uid)

(* ------------------------- table constraints --------------------------- *)
\* a check constraint passes when its expression is true or null
TripChecks(row) ==
    /\ row.driver_id \in DOMAIN profiles
    /\ row.available_seats # NullNum
    /\ row.available_seats > 0
    /\ (row.booked_seats = NullNum \/ row.booked_seats >= 0)
    /\ (row.booked_seats = NullNum \/ row.booked_seats <= row.available_seats)
    /\ row.price_per_seat # NullNum

\* bookings: the foreign keys of customer_id, assigned_driver_id and driver_trip_id
BookingChecks(row) ==
    /\ row.customer_id = null \/ row.customer_id \in DOMAIN profiles
    /\ row.assigned_driver_id = null \/ row.assigned_driver_id \in DOMAIN profiles
    /\ row.driver_trip_id = null \/ row.driver_trip_id \in DOMAIN driver_trips

(* ------------------- requests through the REST API --------------------- *)
\* update bookings set patch where id = id, as uid: the row it reaches, if any
BookingTarget(uid, id) ==
    /\ id \in DOMAIN bookings
    /\ BookingSelectPolicy(uid, bookings[id])
    /\ BookingUpdatePolicy(uid, bookings[id])

\* the update is rejected: the new row breaks a constraint or the policies' check
BookingUpdateError(uid, id, patch) ==
    /\ BookingTarget(uid, id)
    /\ LET new == Patch(bookings[id], patch)
       IN  ~BookingChecks(new) \/ ~BookingUpdatePolicy(uid, new) \/ ~BookingSelectPolicy(uid, new)

\* the table after the update; an update that reaches no row changes nothing and is no error
BookingsUpdated(uid, id, patch) ==
    IF BookingTarget(uid, id) /\ ~BookingUpdateError(uid, id, patch)
    THEN [bookings EXCEPT ![id] = Patch(@, patch)]
    ELSE bookings

TripTarget(uid, id) ==
    /\ id \in DOMAIN driver_trips
    /\ TripSelectPolicy(uid, driver_trips[id])
    /\ TripUpdatePolicy(uid, driver_trips[id])

TripUpdateError(uid, id, patch) ==
    /\ TripTarget(uid, id)
    /\ LET new == Patch(driver_trips[id], patch)
       IN  ~TripChecks(new) \/ ~TripUpdatePolicy(uid, new) \/ ~TripSelectPolicy(uid, new)

\* trigger update_driver_trips_updated_at, before update for each row:
\* new.updated_at = now(), a later time than the one the row held.  The column is
\* carried by the rows of the specification that observes it.
update_updated_at_column(row) ==
    [f \in DOMAIN row |-> IF f = "updated_at" THEN row[f] + 1 ELSE row[f]]

TripsUpdated(uid, id, patch) ==
    IF TripTarget(uid, id) /\ ~TripUpdateError(uid, id, patch)
    THEN [driver_trips EXCEPT ![id] = update_updated_at_column(Patch(@, patch))]
    ELSE driver_trips

\* select * from bookings as uid: the rows the policies show
BookingsVisible(uid) == {id \in DOMAIN bookings : BookingSelectPolicy(uid, bookings[id])}

\* select * from driver_trips as uid: the rows the policies show
TripsVisible(uid) == {id \in DOMAIN driver_trips : TripSelectPolicy(uid, driver_trips[id])}

\* uuid_generate_v4(): an id no row has
FreshBooking == CHOOSE id \in BookingIds : id \notin DOMAIN bookings
FreshTrip == CHOOSE id \in TripIds : id \notin DOMAIN driver_trips

\* insert into bookings as uid: rejected by the insert policy or a foreign key
BookingInsertError(uid, row) == ~BookingInsertPolicy(uid, row) \/ ~BookingChecks(row)

BookingsInserted(uid, row) ==
    IF BookingInsertError(uid, row) THEN bookings
    ELSE [id \in DOMAIN bookings \cup {FreshBooking} |->
            IF id = FreshBooking THEN row ELSE bookings[id]]

TripInsertError(uid, row) == ~TripInsertPolicy(uid, row) \/ ~TripChecks(row)

TripsInserted(uid, row) ==
    IF TripInsertError(uid, row) THEN driver_trips
    ELSE [id \in DOMAIN driver_trips \cup {FreshTrip} |->
            IF id = FreshTrip THEN row ELSE driver_trips[id]]

(* ------------------------------ texts ---------------------------------- *)
Chars == {"-", "0", "2"}
RECURSIVE Texts(_)
Texts(n) == IF n = 0 THEN {<<>>}
            ELSE Texts(n - 1) \cup {Append(s, c) : s \in {x \in Texts(n - 1) : Len(x) = n - 1}, c \in Chars}
\* the value of a number field: empty, or the text of an integer
IsNumberText(s) ==
    \/ s = <<>>
    \/ /\ s[1] \in Digits \cup {"-"}
       /\ \A i \in 2..Len(s) : s[i] \in Digits
       /\ s # <<"-">>
\* what the seats field of the request form can hold
Entries == {s \in Texts(MaxEntryLen) : IsNumberText(s)}
\* the decimal text of a small number
Text(n) == <<CHOOSE c \in Digits : DigitVal(c) = n>>
\* JSON.stringify turns NaN into null
Json(n) == IF n = NaN THEN NullNum ELSE n

(* -------------------- the catalog and the migrations ------------------- *)
\* the kinds of object of the catalog
Kinds == {"types", "tables", "columns", "notnull", "rls", "policies", "constraints",
          "indexes", "triggers", "functions"}

\* the schema the application started with: profiles, bookings and the sign-up trigger
BaseCatalog ==
    [types |-> {"user_role", "booking_status"},
     tables |-> {"profiles", "bookings"},
     columns |-> {<<"profiles", "id">>, <<"profiles", "full_name">>, <<"profiles", "phone_number">>,
                  <<"profiles", "role">>, <<"bookings", "id">>, <<"bookings", "status">>,
                  <<"bookings", "assigned_driver_id">>, <<"bookings", "price">>},
     notnull |-> {<<"profiles", "id">>},
     rls |-> {"profiles", "bookings"},
     policies |-> {<<"bookings", "Drivers can view assigned bookings">>},
     constraints |-> {"profiles_pkey", "bookings_pkey"},
     indexes |-> {},
     triggers |-> {<<"auth.users", "on_auth_user_created">>},
     functions |-> {<<"handle_new_user", "initial">>}]

\* the state of a run of statements: the catalog, and whether a statement raised an error
Run(cat) == [cat |-> cat, error |-> FALSE]

\* create ...: an error when the object exists
Create(s, kind, obj) ==
    IF obj \in s.cat[kind] THEN [s EXCEPT !.error = TRUE]
    ELSE [s EXCEPT !.cat[kind] = @ \cup {obj}]

\* variant: the existence of a policy is not looked up
PolicyExistsNever(s, policy) == FALSE

\* the guard of a policy: select 1 from pg_policies where tablename = ... and policyname = ...
PolicyExists(s, policy) == policy \in s.cat.policies

\* if not exists (...) then create ... end if, and create ... if not exists
CreateIfNotExists(s, kind, obj) == IF obj \in s.cat[kind] THEN s ELSE Create(s, kind, obj)

\* if not exists (select 1 from pg_policies ...) then create policy ... end if
CreatePolicyIfNotExists(s, policy) == IF PolicyExists(s, policy) THEN s ELSE Create(s, "policies", policy)

\* drop ... if exists
DropIfExists(s, kind, obj) == [s EXCEPT !.cat[kind] = @ \ {obj}]

\* create or replace function
CreateOrReplace(s, name, version) ==
    [s EXCEPT !.cat.functions = {f \in @ : f[1] # name} \cup {<<name, version>>}]

\* alter column ... set not null, enable row level security: no error when already so
Set(s, kind, obj) == [s EXCEPT !.cat[kind] = @ \cup {obj}]

\* several objects, one after the other
RECURSIVE Each(_, _, _, _)
Each(how, s, kind, objs) ==
    IF objs = <<>> THEN s
    ELSE LET next == CASE how = "create" -> Create(s, kind, Head(objs))
                       [] how = "create if not exists" -> CreateIfNotExists(s, kind, Head(objs))
                       [] how = "set" -> Set(s, kind, Head(objs))
         IN  Each(how, next, kind, Tail(objs))

RECURSIVE EachPolicy(_, _)
EachPolicy(s, policies) ==
    IF policies = <<>> THEN s ELSE EachPolicy(CreatePolicyIfNotExists(s, Head(policies)), Tail(policies))

\* a statement (a do block is one statement) that raises an error changes nothing
Statement(before, after) == IF after.error THEN [before EXCEPT !.error = TRUE] ELSE after

TripColumns == <<"id", "driver_id", "origin", "destination", "departure_time", "available_seats",
                 "booked_seats", "price_per_seat", "whole_car_price", "status", "created_at",
                 "updated_at">>

\* create table if not exists public.driver_trips (...)
CreateTripsTable(s) ==
    IF "driver_trips" \in s.cat.tables THEN s
    ELSE LET t == Create(s, "tables", "driver_trips")
             c == Each("create", t, "columns", [i \in 1..Len(TripColumns) |-> <<"driver_trips", TripColumns[i]>>])
             n == Each("set", c, "notnull",
                       <<<<"driver_trips", "driver_id">>, <<"driver_trips", "available_seats">>,
                         <<"driver_trips", "price_per_seat">>>>)
         IN  Each("create", n, "constraints",
                  <<"driver_trips_pkey", "driver_trips_driver_id_fkey",
                    "driver_trips_available_seats_check", "driver_trips_booked_seats_check",
                    "seats_check">>)

\* the steps of 20240101000000_shared_ride_system.sql
MigrationStep(n, s) ==
    CASE n = 1 -> Statement(s, Each("create if not exists", s, "types", <<"booking_type", "trip_status">>))
      [] n = 2 -> Set(s, "notnull", <<"profiles", "phone_number">>)
      [] n = 3 -> Statement(s, Each("create if not exists", s, "columns",
                                    <<<<"bookings", "customer_id">>, <<"bookings", "booking_type">>,
                                      <<"bookings", "driver_trip_id">>, <<"bookings", "seats_booked">>>>))
      [] n = 4 -> Statement(s, CreateTripsTable(s))
      [] n = 5 -> Set(s, "rls", "driver_trips")
      [] n = 6 ->
            LET dropped == DropIfExists(s, "policies", <<"bookings", "Admins can do everything on bookings">>)
                admins == Statement(dropped, EachPolicy(dropped,
                              <<<<"bookings", "Admins can view all bookings">>,
                                <<"bookings", "Admins can insert bookings">>,
                                <<"bookings", "Admins can update bookings">>,
                                <<"bookings", "Admins can delete bookings">>>>))
                drivers == Statement(admins, EachPolicy(admins,
                              <<<<"bookings", "Drivers can update assigned bookings">>>>))
            IN  Statement(drivers, EachPolicy(drivers,
                              <<<<"bookings", "Customers can view own bookings">>,
                                <<"bookings", "Customers can insert own bookings">>>>))
      [] n = 7 -> Statement(s, EachPolicy(s,
                              <<<<"driver_trips", "Everyone can view scheduled trips">>,
                                <<"driver_trips", "Drivers can view own trips">>,
                                <<"driver_trips", "Admins can view all trips">>,
                                <<"driver_trips", "Drivers can insert own trips">>,
                                <<"driver_trips", "Drivers can update own trips">>,
                                <<"driver_trips", "Admins can update any trip">>>>))
      [] n = 8 -> Statement(s, CreateIfNotExists(s, "constraints", "bookings_driver_trip_id_fkey"))
      [] n = 9 -> Each("create if not exists", s, "indexes",
                       <<"idx_driver_trips_driver_id", "idx_driver_trips_departure_time",
                         "idx_driver_trips_status", "idx_bookings_driver_trip_id",
                         "idx_bookings_customer_id", "idx_bookings_booking_type">>)
      [] n = 10 -> CreateOrReplace(s, "update_updated_at_column", "20240101")
      [] n = 11 -> LET dropped == DropIfExists(s, "triggers", <<"driver_trips", "update_driver_trips_updated_at">>)
                   IN  Statement(dropped, Create(dropped, "triggers",
                                                 <<"driver_trips", "update_driver_trips_updated_at">>))
      [] n = 12 -> CreateOrReplace(s, "handle_new_user", "20240101")

LastStep == 12

\* the whole file, from step n on
RECURSIVE Migrated(_, _)
Migrated(n, s) == IF n > LastStep THEN s ELSE Migrated(n + 1, MigrationStep(n, s))

\* 20240102000000_fix_user_profile_creation.sql: the function, then the trigger again
FixUserProfileCreation(s) ==
    LET replaced == CreateOrReplace(s, "handle_new_user", "20240102")
        dropped == DropIfExists(replaced, "triggers", <<"auth.users", "on_auth_user_created">>)
    IN  Statement(dropped, Create(dropped, "triggers", <<"auth.users", "on_auth_user_created">>))

\* the catalog of the running application: both migrations applied
InstalledCatalog == FixUserProfileCreation(Migrated(1, Run(BaseCatalog))).cat

NoMigration == [run |-> 0, step |-> 0, error |-> FALSE, first |-> BaseCatalog, fixed |-> FALSE]

(* ------------------------- sign-up and sign-in ------------------------- *)
\* ids of the users who sign up later
NewUsers == {"u1", "u2"}

\* raw_user_meta_data: a key that is absent reads as null
Names == {null, "Abebe"}
Phones == {null, "0911"}
MetaRoles == {null, "admin", "driver", "customer", "owner"}
Metadata == [full_name : Names, phone_number : Phones, role : MetaRoles]

\* coalesce(a, b)
Coalesce(a, b) == IF a = null THEN b ELSE a

\* case when (meta->>'role')::text in ('admin', 'driver', 'customer') then ... else 'customer' end
RoleOf(meta) == IF meta.role \in UserRole THEN meta.role ELSE "customer"

NoProfile == [role |-> null, full_name |-> null, phone_number |-> null]

\* insert into public.profiles: the primary key, the reference to auth.users, phone_number not null
ProfileInsertError(id, row, users) ==
    \/ id \in DOMAIN profiles
    \/ id \notin users
    \/ row.phone_number = null
    \/ row.role \notin UserRole

\* handle_new_user of 20240101000000: the role is cast as it comes, and no exception handler
handle_new_user_20240101(id, meta, users, raises) ==
    LET row == [role |-> Coalesce(meta.role, "customer"),
                full_name |-> meta.full_name,
                phone_number |-> Coalesce(meta.phone_number, "0000000000")]
        error == raises[1] \/ ProfileInsertError(id, row, users)
    IN  [created |-> ~error, row |-> IF error THEN NoProfile ELSE row, raised |-> error,
         note |-> IF error THEN "raised" ELSE "profile created"]

\* variant: the second insert is not inside a block that handles its exception
handle_new_user_unhandled(id, meta, users, raises) ==
    LET first == [role |-> Coalesce(RoleOf(meta), "customer"),
                  full_name |-> Coalesce(meta.full_name, "User"),
                  phone_number |-> Coalesce(meta.phone_number, "0000000000")]
        fallback == [first EXCEPT !.role = "customer"]
    IN  IF ~(raises[1] \/ ProfileInsertError(id, first, users))
        THEN [created |-> TRUE, row |-> first, raised |-> FALSE, note |-> "profile created"]
        ELSE IF ~(raises[2] \/ ProfileInsertError(id, fallback, users))
        THEN [created |-> TRUE, row |-> fallback, raised |-> FALSE, note |-> "fallback profile created"]
        ELSE [created |-> FALSE, row |-> NoProfile, raised |-> TRUE, note |-> "raised"]

\* handle_new_user of 20240102000000 and schema.sql: the insert, and on any error the
\* insert again with role customer; a second error is only a warning
handle_new_user(id, meta, users, raises) ==
    LET first == [role |-> Coalesce(RoleOf(meta), "customer"),
                  full_name |-> Coalesce(meta.full_name, "User"),
                  phone_number |-> Coalesce(meta.phone_number, "0000000000")]
        fallback == [first EXCEPT !.role = "customer"]
    IN  IF ~(raises[1] \/ ProfileInsertError(id, first, users))
        THEN [created |-> TRUE, row |-> first, raised |-> FALSE, note |-> "profile created"]
        ELSE IF ~(raises[2] \/ ProfileInsertError(id, fallback, users))
        THEN [created |-> TRUE, row |-> fallback, raised |-> FALSE, note |-> "fallback profile created"]
        ELSE [created |-> FALSE, row |-> NoProfile, raised |-> FALSE, note |-> "no profile created"]

\* the trigger on_auth_user_created runs the function the catalog holds
Trigger(id, meta, users, raises) ==
    IF <<"auth.users", "on_auth_user_created">> \notin catalog.triggers
    THEN [created |-> FALSE, row |-> NoProfile, raised |-> FALSE, note |-> "no trigger"]
    ELSE IF <<"handle_new_user", "20240102">> \in catalog.functions
    THEN handle_new_user(id, meta, users, raises)
    ELSE handle_new_user_20240101(id, meta, users, raises)

\* variant: a role that is none of the three leaves the page where it is
NavigateKnown(role) ==
    CASE role = "admin" -> "/admin"
      [] role = "driver" -> "/driver"
      [] role = "customer" -> "/customer"
      [] OTHER -> "/login"

\* if (profile?.role === 'admin') ... else if 'driver' ... else if 'customer' ... else
Navigate(role) ==
    CASE role = "admin" -> "/admin"
      [] role = "driver" -> "/driver"
      [] role = "customer" -> "/customer"
      [] OTHER -> "/customer"

\* the Login page before a sign-in
NoLogin == [loading |-> FALSE, error |-> null, path |-> "/login", at |-> "idle", user |-> null]

InitSystem ==
    /\ catalog = InstalledCatalog
    /\ migration = NoMigration
    /\ auth_users = [u \in Users |-> [full_name |-> "User", phone_number |-> "0000000000",
                                       role |-> IF u \in Admins THEN "admin"
                                                ELSE IF u \in Drivers THEN "driver" ELSE "customer"]]
    /\ login = NoLogin

(* ------------------------------ Init ----------------------------------- *)
NoTrip == [driver_id |-> null, available_seats |-> 0, booked_seats |-> 0,
           price_per_seat |-> 0, status |-> "scheduled"]
NoBooking == [customer_id |-> null, booking_type |-> "custom_request", status |-> "pending",
              assigned_driver_id |-> null, driver_trip_id |-> null, seats_booked |-> 0,
              price |-> NullNum]
NoCall == [request |-> null, trip |-> null, seats |-> 0, row |-> NoTrip,
           error |-> FALSE, applied |-> FALSE, repeat |-> FALSE, raced |-> FALSE]
NoLast == [op |-> "none", uid |-> null, ok |-> FALSE, note |-> "",
           id |-> null, trip |-> null, seats |-> 0, raced |-> FALSE, repeat |-> FALSE,
           row |-> NoBooking, seen |-> {}]

Empty == [x \in {} |-> x]
Clients == Admins \cup Drivers
\* the dashboards that are open: a customer's, beside those of two admins or that of a driver
Sessions == {{"a1", "a2", "c1"}, {"d1", "c1"}}

InitProfiles ==
    [u \in Users |-> [role |-> IF u \in Admins THEN "admin"
                               ELSE IF u \in Drivers THEN "driver" ELSE "customer",
                      full_name |-> "User",
                      phone_number |-> "0000000000"]]

InitClients ==
    /\ customRequests = [u \in Clients |-> Empty]
    /\ driverTrips = [u \in Clients |-> Empty]
    /\ customRequest = [u \in Customers |-> <<"1">>]
    /\ call = [u \in Clients |-> NoCall]
    /\ pc = [u \in Clients |-> "idle"]
    /\ last = NoLast

\* a handler step and how it ended
Step(op, uid, ok, note) == [NoLast EXCEPT !.op = op, !.uid = uid, !.ok = ok, !.note = note]

(* ------------------------- CustomerDashboard --------------------------- *)
\* onChange of the seats field
SetSeatsNeeded(u, text) ==
    /\ u \in Customers \cap sessions
    /\ customRequest[u] # text
    /\ customRequest' = [customRequest EXCEPT ![u] = text]
    /\ last' = Step("SetSeatsNeeded", u, TRUE, "")
    /\ UNCHANGED <<dbVars, customRequests, driverTrips, call, pc, sessions, systemVars>>

\* variant: the parsed entry is sent as it is, without the fallback to 1
CustomRequestRowParsed(u) ==
    [customer_id |-> u,
     booking_type |-> "custom_request",
     status |-> "pending",
     assigned_driver_id |-> null,
     driver_trip_id |-> null,
     seats_booked |-> Json(parseInt(customRequest[u])),
     price |-> NullNum]

\* the row handleCustomRequest inserts; the columns it leaves out take their defaults
CustomRequestRow(u) ==
    [customer_id |-> u,
     booking_type |-> "custom_request",
     status |-> "pending",
     assigned_driver_id |-> null,
     driver_trip_id |-> null,
     seats_booked |-> Or(parseInt(customRequest[u]), 1),
     price |-> NullNum]

handleCustomRequest(u, netfail) ==
    /\ u \in Customers \cap sessions
    /\ u \in DOMAIN profiles
    /\ DOMAIN bookings # BookingIds
    /\ LET row == CustomRequestRow(u)
           error == netfail \/ BookingInsertError(u, row)
       IN  /\ bookings' = IF error THEN bookings ELSE BookingsInserted(u, row)
           /\ customRequest' = IF error THEN customRequest ELSE [customRequest EXCEPT ![u] = <<"1">>]
           /\ last' = [Step("handleCustomRequest", u, ~error,
                            IF error THEN "Error submitting request" ELSE "Booking request submitted")
                       EXCEPT !.id = IF error THEN null ELSE FreshBooking]
    /\ UNCHANGED <<profiles, driver_trips, customRequests, driverTrips, call, pc, sessions, systemVars>>

(* ------------------------------ fetches -------------------------------- *)
\* booking_type = 'custom_request', status = 'pending', no driver_trip_id
IsPendingRequest(row) ==
    /\ row.booking_type = "custom_request"
    /\ row.status = "pending"
    /\ row.driver_trip_id = null

\* the pending requests a select as uid returns, with the seat count of each
PendingRequests(uid) ==
    [id \in {b \in BookingsVisible(uid) : IsPendingRequest(bookings[b])} |-> bookings[id].seats_booked]

\* AdminDashboard: every row of the trips table the policies show
AllTrips(uid, trips) ==
    [id \in {t \in DOMAIN trips : TripSelectPolicy(uid, trips[t])} |-> trips[id]]

\* DriverDashboard: .eq('driver_id', user.id)
MyTrips(uid, trips) ==
    [id \in {t \in DOMAIN trips : TripSelectPolicy(uid, trips[t]) /\ trips[t].driver_id = uid} |-> trips[id]]

\* a query that fails leaves the list as it was
Fetched(list, u, ok, rows) == IF ok THEN [list EXCEPT ![u] = rows] ELSE list

\* AdminDashboard.fetchData: the bookings query, then the trips query
fetchData(a, okB, okT) ==
    /\ a \in Admins \cap sessions
    /\ pc[a] = "idle"
    /\ customRequests' = Fetched(customRequests, a, okB, PendingRequests(a))
    /\ driverTrips' = Fetched(driverTrips, a, okT, AllTrips(a, driver_trips))
    /\ last' = Step("fetchData", a, okB, "")
    /\ UNCHANGED <<dbVars, customRequest, call, pc, sessions, systemVars>>

\* DriverDashboard: fetchPendingRequests and fetchMyTrips, started together
fetchPendingRequests(d, okR, okT) ==
    /\ d \in Drivers \cap sessions
    /\ pc[d] = "idle"
    /\ customRequests' = Fetched(customRequests, d, okR, PendingRequests(d))
    /\ driverTrips' = Fetched(driverTrips, d, okT, MyTrips(d, driver_trips))
    /\ last' = Step("fetchPendingRequests", d, okR, "")
    /\ UNCHANGED <<dbVars, customRequest, call, pc, sessions, systemVars>>

(* --------------------------- the match flow ---------------------------- *)
\* seatsToAssign || matchingSeats[key] || request.seats_booked || 1
SeatsToMatch(seatsToAssign, matchingSeats, requested) ==
    Or(seatsToAssign, Or(matchingSeats, Or(requested, 1)))

\* trip.available_seats - trip.booked_seats
AvailableSeats(trip) == Num(trip.available_seats) - Num(trip.booked_seats)

\* variant: priced from the trip row as it is in the database at the time of the update
MatchPriceCurrent(seats, trip) ==
    LET now == {t \in DOMAIN driver_trips : driver_trips[t].driver_id = trip.driver_id}
    IN  seats * Num(driver_trips[CHOOSE t \in now : TRUE].price_per_seat)

\* seats * trip.price_per_seat
MatchPrice(seats, trip) == seats * Num(trip.price_per_seat)

\* variant: the number of seats the trip's assigned bookings hold, counted again
SeatsAssigned(c) ==
    LET on == {b \in DOMAIN bookings : bookings[b].driver_trip_id = c.trip}
        RECURSIVE Sum(_)
        Sum(S) == IF S = {} THEN 0
                  ELSE LET b == CHOOSE x \in S : TRUE IN bookings[b].seats_booked + Sum(S \ {b})
    IN  Sum(on)

\* variant: the request keeps the seats it asked for
MatchPatchWholeRequest(t, driver, seats, trip) ==
    [driver_trip_id |-> t,
     assigned_driver_id |-> driver,
     status |-> "assigned",
     price |-> MatchPrice(seats, trip)]

\* the columns a match writes to the booking
MatchPatch(t, driver, seats, trip) ==
    [driver_trip_id |-> t,
     assigned_driver_id |-> driver,
     status |-> "assigned",
     seats_booked |-> seats,
     price |-> MatchPrice(seats, trip)]

\* variant: incremented in the database, from the row's value at the time of the update
NewBookedSeatsAtomic(c) ==
    (IF c.trip \in DOMAIN driver_trips THEN Num(driver_trips[c.trip].booked_seats) ELSE 0) + c.seats

\* trip.booked_seats + seats, from the trip the handler read from its list
NewBookedSeats(c) == Num(c.row.booked_seats) + c.seats

\* variant: only the seats left on the trip are checked
GuardsPassAvailable(seats, trip, requested) == ~(seats > AvailableSeats(trip))

\* the booking update is sent only when both guards pass
GuardsPass(seats, trip, requested) ==
    /\ ~(seats > AvailableSeats(trip))
    /\ ~(seats > Num(requested))

\* variant: the driver_trips update follows whatever the bookings update returned
AfterBookingAlways(error) == "trip"

\* after the bookings update: the driver_trips update follows only without an error
AfterBooking(error) == IF error THEN "idle" ELSE "trip"

\* the alert after a bookings update that returned an error
BookingAlert(op) ==
    IF op = "handleAssignRequest" THEN "Error assigning request" ELSE "Error matching request"

\* the match a step belongs to
MatchStep(op, u, ok, note, r, t, seats) ==
    [Step(op, u, ok, note) EXCEPT !.id = r, !.trip = t, !.seats = seats]

\* the client's last step completed this very match, and its trip list shows the result
IsRepeat(op, u, r, t, seats) ==
    /\ last = [MatchStep(op, u, TRUE, "update driver_trips", r, t, seats)
                EXCEPT !.raced = last.raced, !.repeat = last.repeat]
    /\ t \in DOMAIN driver_trips
    /\ driverTrips[u][t] = driver_trips[t]

\* the handler up to and including its bookings update
MatchBooking(op, u, r, t, seats, driver, netfail) ==
    /\ u \in sessions
    /\ pc[u] = "idle"
    /\ IF r \notin DOMAIN customRequests[u] \/ t \notin DOMAIN driverTrips[u]
       THEN /\ last' = Step(op, u, FALSE, "returned")
            /\ UNCHANGED <<bookings, pc, call>>
       ELSE LET trip == driverTrips[u][t]
                requested == customRequests[u][r]
                patch == MatchPatch(t, driver, seats, trip)
                error == netfail \/ BookingUpdateError(u, r, patch)
                c == [request |-> r, trip |-> t, seats |-> seats, row |-> trip,
                      error |-> error,
                      applied |-> ~error /\ BookingTarget(u, r),
                      repeat |-> IsRepeat(op, u, r, t, seats),
                      raced |-> FALSE]
            IN  IF ~GuardsPass(seats, trip, requested)
                THEN /\ last' = Step(op, u, FALSE,
                                     IF seats > AvailableSeats(trip) THEN "Not enough seats available"
                                     ELSE "Cannot assign more seats than requested")
                     /\ UNCHANGED <<bookings, pc, call>>
                ELSE /\ bookings' = IF error THEN bookings ELSE BookingsUpdated(u, r, patch)
                     /\ pc' = [pc EXCEPT ![u] = AfterBooking(error)]
                     /\ call' = [call EXCEPT ![u] = IF AfterBooking(error) = "idle" THEN NoCall ELSE c]
                     /\ last' = IF error THEN Step(op, u, FALSE, BookingAlert(op))
                                ELSE MatchStep(op, u, TRUE, "update bookings", r, t, seats)
    /\ UNCHANGED <<profiles, driver_trips, customRequests, driverTrips, customRequest, sessions, systemVars>>

\* variant: an error of the driver_trips update puts the booking back to pending
BookingsRolledBack(error, c) ==
    IF error /\ c.request \in DOMAIN bookings
    THEN [bookings EXCEPT ![c.request] =
            Patch(@, [driver_trip_id |-> null, assigned_driver_id |-> null, status |-> "pending"])]
    ELSE bookings

\* the bookings table after the driver_trips update: on an error the handler only alerts
BookingsAfterTripUpdate(error, c) == bookings

\* another client's match of a different request is under way on the trip of match c,
\* and read the same row from its list
Races(other, at, c) ==
    /\ at = "trip"
    /\ other.trip = c.trip
    /\ other.request # c.request
    /\ other.row = c.row

\* the handler from its driver_trips update on; on success the lists are fetched again.
\* A match that another client's write overtakes is marked as raced.
MatchTrip(op, u, netfail, okR, okT) ==
    /\ pc[u] = "trip"
    /\ LET c == call[u]
           patch == [booked_seats |-> NewBookedSeats(c)]
           error == netfail \/ TripUpdateError(u, c.trip, patch)
           trips == IF error THEN driver_trips ELSE TripsUpdated(u, c.trip, patch)
       IN  /\ driver_trips' = trips
           /\ last' = [MatchStep(op, u, ~error,
                                 IF error THEN "Error updating trip" ELSE "update driver_trips",
                                 c.request, c.trip, c.seats)
                       EXCEPT !.raced = c.raced, !.repeat = c.repeat]
           /\ bookings' = BookingsAfterTripUpdate(error, c)
           /\ customRequests' = IF error THEN customRequests
                                ELSE Fetched(customRequests, u, okR, PendingRequests(u))
           /\ driverTrips' = IF error THEN driverTrips
                             ELSE Fetched(driverTrips, u, okT,
                                          IF u \in Admins THEN AllTrips(u, trips) ELSE MyTrips(u, trips))
           /\ call' = [v \in Clients |->
                         IF v = u THEN NoCall
                         ELSE IF ~error /\ TripTarget(u, c.trip) /\ Races(call[v], pc[v], c)
                              THEN [call[v] EXCEPT !.raced = TRUE]
                              ELSE call[v]]
    /\ pc' = [pc EXCEPT ![u] = "idle"]
    /\ UNCHANGED <<profiles, customRequest, sessions, systemVars>>

\* AdminDashboard.handleMatchRequest, up to the bookings update
handleMatchRequest(a, r, t, seatsToAssign, matchingSeats, netfail) ==
    /\ a \in Admins
    /\ LET requested == IF r \in DOMAIN customRequests[a] THEN customRequests[a][r] ELSE 1
           driver == IF t \in DOMAIN driverTrips[a] THEN driverTrips[a][t].driver_id ELSE null
       IN  MatchBooking("handleMatchRequest", a, r, t,
                        SeatsToMatch(seatsToAssign, matchingSeats, requested), driver, netfail)

\* AdminDashboard.handleMatchRequest, the driver_trips update and fetchData
handleMatchRequestTrip(a, netfail, okR, okT) ==
    /\ a \in Admins
    /\ MatchTrip("handleMatchRequest", a, netfail, okR, okT)

\* DriverDashboard.handleAssignRequest, up to the bookings update
handleAssignRequest(d, r, t, seats, netfail) ==
    /\ d \in Drivers
    /\ MatchBooking("handleAssignRequest", d, r, t, seats, d, netfail)

\* DriverDashboard.handleAssignRequest, the driver_trips update and the fetches
handleAssignRequestTrip(d, netfail, okR, okT) ==
    /\ d \in Drivers
    /\ MatchTrip("handleAssignRequest", d, netfail, okR, okT)

(* ------------------------------- trips --------------------------------- *)
\* parseFloat of a text without fraction or exponent
parseFloat(s) == parseInt(s)

\* the row handleCreateTrip inserts; booked_seats and status take their defaults
NewTripRow(d, seatsText, priceText) ==
    [driver_id |-> d,
     available_seats |-> Json(parseInt(seatsText)),
     booked_seats |-> 0,
     price_per_seat |-> Json(parseFloat(priceText)),
     status |-> "scheduled"]

\* DriverDashboard.handleCreateTrip, with fetchMyTrips on success
handleCreateTrip(d, seatsText, priceText, netfail, okT) ==
    /\ d \in Drivers \cap sessions
    /\ pc[d] = "idle"
    /\ DOMAIN driver_trips # TripIds
    /\ LET row == NewTripRow(d, seatsText, priceText)
           error == netfail \/ TripInsertError(d, row)
           trips == IF error THEN driver_trips ELSE TripsInserted(d, row)
       IN  /\ driver_trips' = trips
           /\ last' = Step("handleCreateTrip", d, ~error, IF error THEN "Error creating trip" ELSE "")
           /\ driverTrips' = IF error THEN driverTrips
                             ELSE Fetched(driverTrips, d, okT, MyTrips(d, trips))
    /\ UNCHANGED <<profiles, bookings, customRequests, customRequest, call, pc, sessions, systemVars>>

\* AdminDashboard.handleUpdateTripPrice(tripId, 'price_per_seat', value), with fetchData on success
handleUpdateTripPrice(a, t, value, netfail, okR, okT) ==
    /\ a \in Admins \cap sessions
    /\ pc[a] = "idle"
    /\ t \in DOMAIN driverTrips[a]
    /\ LET patch == [price_per_seat |-> value]
           error == netfail \/ TripUpdateError(a, t, patch)
           trips == IF error THEN driver_trips ELSE TripsUpdated(a, t, patch)
       IN  /\ driver_trips' = trips
           /\ last' = Step("handleUpdateTripPrice", a, ~error, IF error THEN "Error updating price" ELSE "")
           /\ customRequests' = IF error THEN customRequests
                                ELSE Fetched(customRequests, a, okR, PendingRequests(a))
           /\ driverTrips' = IF error THEN driverTrips
                             ELSE Fetched(driverTrips, a, okT, AllTrips(a, trips))
    /\ UNCHANGED <<profiles, bookings, customRequest, call, pc, sessions, systemVars>>

\* DriverDashboard.handleUpdateTrip(tripId, { price_per_seat: parseFloat(text) }), with fetchMyTrips on success
handleUpdateTrip(d, t, text, netfail, okT) ==
    /\ d \in Drivers \cap sessions
    /\ pc[d] = "idle"
    /\ t \in DOMAIN driverTrips[d]
    /\ LET patch == [price_per_seat |-> Json(parseFloat(text))]
           error == netfail \/ TripUpdateError(d, t, patch)
           trips == IF error THEN driver_trips ELSE TripsUpdated(d, t, patch)
       IN  /\ driver_trips' = trips
           /\ last' = Step("handleUpdateTrip", d, ~error, IF error THEN "Error updating trip price" ELSE "")
           /\ driverTrips' = IF error THEN driverTrips
                             ELSE Fetched(driverTrips, d, okT, MyTrips(d, trips))
    /\ UNCHANGED <<profiles, bookings, customRequests, customRequest, call, pc, sessions, systemVars>>

(* ------------------ any signed-in user, through the API ---------------- *)
\* insert into bookings (...) values (...)
ApiInsertBooking(uid, row) ==
    /\ uid \in DOMAIN profiles
    /\ DOMAIN bookings # BookingIds
    /\ bookings' = BookingsInserted(uid, row)
    /\ last' = [Step("insert bookings", uid, ~BookingInsertError(uid, row), "")
                EXCEPT !.id = FreshBooking, !.row = row]
    /\ UNCHANGED <<profiles, driver_trips, clientVars>>

\* select * from bookings
ApiSelectBookings(uid) ==
    /\ uid \in DOMAIN profiles
    /\ last' = [Step("select bookings", uid, TRUE, "") EXCEPT !.seen = BookingsVisible(uid)]
    /\ UNCHANGED <<dbVars, clientVars>>

\* update bookings set (...) where id = id
ApiUpdateBooking(uid, id, patch) ==
    /\ uid \in DOMAIN profiles
    /\ id \in DOMAIN bookings
    /\ bookings' = BookingsUpdated(uid, id, patch)
    /\ last' = [Step("update bookings", uid, ~BookingUpdateError(uid, id, patch), "")
                EXCEPT !.id = id]
    /\ UNCHANGED <<profiles, driver_trips, clientVars>>

\* delete from bookings where id = id: the rows the select and delete policies both show
BookingsDeleted(uid, id) ==
    IF BookingSelectPolicy(uid, bookings[id]) /\ BookingDeletePolicy(uid, bookings[id])
    THEN [b \in DOMAIN bookings \ {id} |-> bookings[b]]
    ELSE bookings

ApiDeleteBooking(uid, id) ==
    /\ uid \in DOMAIN profiles
    /\ id \in DOMAIN bookings
    /\ bookings' = BookingsDeleted(uid, id)
    /\ last' = [Step("delete bookings", uid, TRUE, "") EXCEPT !.id = id]
    /\ UNCHANGED <<profiles, driver_trips, clientVars>>

\* insert into driver_trips (...) values (...)
ApiInsertTrip(uid, row) ==
    /\ uid \in DOMAIN profiles
    /\ DOMAIN driver_trips # TripIds
    /\ driver_trips' = TripsInserted(uid, row)
    /\ last' = [Step("insert driver_trips", uid, ~TripInsertError(uid, row), "")
                EXCEPT !.trip = FreshTrip]
    /\ UNCHANGED <<profiles, bookings, clientVars>>

\* update driver_trips set (...) where id = t
ApiUpdateTrip(uid, t, patch) ==
    /\ uid \in DOMAIN profiles
    /\ t \in DOMAIN driver_trips
    /\ driver_trips' = TripsUpdated(uid, t, patch)
    /\ last' = [Step("update driver_trips", uid, ~TripUpdateError(uid, t, patch), "")
                EXCEPT !.trip = t]
    /\ UNCHANGED <<profiles, bookings, clientVars>>

\* select * from driver_trips
ApiSelectTrips(uid) ==
    /\ uid \in DOMAIN profiles
    /\ last' = [Step("select driver_trips", uid, TRUE, "") EXCEPT !.seen = TripsVisible(uid)]
    /\ UNCHANGED <<dbVars, clientVars>>

\* a pending custom request a user files for themselves, with or without naming themselves driver
OwnRequests(uid) ==
    {[CustomRequestRow("c1") EXCEPT !.customer_id = uid, !.assigned_driver_id = ad, !.seats_booked = 1]
        : ad \in {null, uid}}

(* ------------------------------- Spec ---------------------------------- *)
\* the matching flow: a driver's scheduled trip exists, requests come in and are matched
SeatTexts == {Text(n) : n \in 1..MaxSeats}
TripSeatTexts == {Text(0), Text(MaxSeats), <<>>}
PriceTexts == {Text(p) : p \in Prices} \cup {<<>>}

ScheduledTrip(d, seats, price) ==
    [NewTripRow(d, Text(seats), Text(price)) EXCEPT !.booked_seats = 0]

\* the database after the migrations and the sign-ups, with one trip scheduled by its driver
InitDatabase ==
    /\ profiles = InitProfiles
    /\ bookings = Empty
    /\ driver_trips = [t \in TripIds |-> ScheduledTrip("d1", MaxSeats, 3)]

Init ==
    /\ InitDatabase
    /\ InitClients
    /\ InitSystem
    /\ sessions \in Sessions

Next ==
    \/ \E u \in Customers, netfail \in BOOLEAN : handleCustomRequest(u, netfail)
    \/ \E d \in Drivers \cap sessions : \E row \in OwnRequests(d) : ApiInsertBooking(d, row)
    \/ \E a \in Admins, okB, okT \in BOOLEAN : fetchData(a, okB, okT)
    \/ \E d \in Drivers, okR, okT \in BOOLEAN : fetchPendingRequests(d, okR, okT)
    \/ \E a \in Admins, r \in BookingIds, t \in TripIds, seatsToAssign \in 0..MaxSeats, matchingSeats \in {0, MaxSeats},
          netfail \in BOOLEAN :
          handleMatchRequest(a, r, t, seatsToAssign, matchingSeats, netfail)
    \/ \E a \in Admins, netfail, okR, okT \in BOOLEAN : handleMatchRequestTrip(a, netfail, okR, okT)
    \/ \E d \in Drivers, r \in BookingIds, t \in TripIds, seats \in 0..MaxSeats, netfail \in BOOLEAN :
          handleAssignRequest(d, r, t, seats, netfail)
    \/ \E d \in Drivers, netfail, okR, okT \in BOOLEAN : handleAssignRequestTrip(d, netfail, okR, okT)

Spec == Init /\ [][Next]_vars

\* prices change while requests are matched: an admin edits the price of a trip and matches
\* a customer's requests to it, or a driver does so with the requests the driver can see
PriceSessions == {{"a1", "c1"}, {"d1"}}

InitPrice ==
    /\ InitDatabase
    /\ InitClients
    /\ InitSystem
    /\ sessions \in PriceSessions

NextPrice ==
    \/ \E u \in Customers, text \in SeatTexts : SetSeatsNeeded(u, text)
    \/ \E u \in Customers, netfail \in BOOLEAN : handleCustomRequest(u, netfail)
    \/ \E d \in Drivers \cap sessions : \E row \in OwnRequests(d) : ApiInsertBooking(d, row)
    \/ \E a \in Admins, okB, okT \in BOOLEAN : fetchData(a, okB, okT)
    \/ \E d \in Drivers, okR, okT \in BOOLEAN : fetchPendingRequests(d, okR, okT)
    \/ \E a \in Admins, t \in TripIds, value \in Prices, netfail, okR, okT \in BOOLEAN :
          handleUpdateTripPrice(a, t, value, netfail, okR, okT)
    \/ \E d \in Drivers, t \in TripIds, text \in PriceTexts, netfail, okT \in BOOLEAN :
          handleUpdateTrip(d, t, text, netfail, okT)
    \/ \E a \in Admins, r \in BookingIds, t \in TripIds, seatsToAssign \in 0..MaxSeats,
          matchingSeats \in {0, MaxSeats}, netfail \in BOOLEAN :
          handleMatchRequest(a, r, t, seatsToAssign, matchingSeats, netfail)
    \/ \E a \in Admins, netfail, okR, okT \in BOOLEAN : handleMatchRequestTrip(a, netfail, okR, okT)
    \/ \E d \in Drivers, r \in BookingIds, t \in TripIds, seats \in 0..MaxSeats, netfail \in BOOLEAN :
          handleAssignRequest(d, r, t, seats, netfail)
    \/ \E d \in Drivers, netfail, okR, okT \in BOOLEAN : handleAssignRequestTrip(d, netfail, okR, okT)

SpecPrice == InitPrice /\ [][NextPrice]_vars

\* the request form of the customer dashboard
InitRequest ==
    /\ InitDatabase
    /\ InitClients
    /\ InitSystem
    /\ sessions = {"c1"}

NextRequest ==
    \/ \E u \in Customers, text \in Entries : SetSeatsNeeded(u, text)
    \/ \E u \in Customers, netfail \in BOOLEAN : handleCustomRequest(u, netfail)

SpecRequest == InitRequest /\ [][NextRequest]_vars

\* the trips table: a driver's dashboard, and any signed-in user's requests to the table
InitTrips ==
    /\ profiles = InitProfiles
    /\ bookings = Empty
    /\ driver_trips = Empty
    /\ InitClients
    /\ InitSystem
    /\ sessions = {"d1"}

\* rows and columns sent to the trips table
SeatValues == {NullNum, 0 - 1} \cup 0..(MaxSeats + 1)
TripRows(uid) ==
    {[driver_id |-> d, available_seats |-> a, booked_seats |-> b, price_per_seat |-> 3, status |-> "scheduled"]
        : d \in {uid, "d1"}, a \in {NullNum, 0, MaxSeats}, b \in {NullNum, 0, MaxSeats + 1}}
TripPatches ==
    {[booked_seats |-> n] : n \in SeatValues} \cup {[available_seats |-> n] : n \in {NullNum} \cup 0..1}
        \cup {[status |-> "completed"]}

NextTrips ==
    \/ \E d \in Drivers, seatsText \in TripSeatTexts, priceText \in PriceTexts, netfail, okT \in BOOLEAN :
          handleCreateTrip(d, seatsText, priceText, netfail, okT)
    \/ \E d \in Drivers, okR, okT \in BOOLEAN : fetchPendingRequests(d, okR, okT)
    \/ \E d \in Drivers, t \in TripIds, text \in PriceTexts, netfail, okT \in BOOLEAN :
          handleUpdateTrip(d, t, text, netfail, okT)
    \/ \E uid \in Users : \E row \in TripRows(uid) : ApiInsertTrip(uid, row)
    \/ \E uid \in Users, t \in TripIds, patch \in TripPatches : ApiUpdateTrip(uid, t, patch)
    \/ \E uid \in Users : ApiSelectTrips(uid)

SpecTrips == InitTrips /\ [][NextTrips]_vars

\* the bookings table behind its policies: any signed-in user's requests to the table
InitRLS ==
    /\ InitDatabase
    /\ InitClients
    /\ InitSystem
    /\ sessions = {}

\* who sends them: an admin, a driver, a customer
Senders == {"a1", "d1", "c1"}

\* rows and columns sent to the bookings table
Parties == {null, "c1", "d1"}
BookingRows ==
    {[NoBooking EXCEPT !.customer_id = c, !.assigned_driver_id = d, !.seats_booked = 1]
        : c \in Parties, d \in Parties}
BookingPatches ==
    {[status |-> "cancelled"]} \cup {[assigned_driver_id |-> d] : d \in Parties}

NextRLS ==
    \/ \E uid \in Senders : ApiSelectBookings(uid)
    \/ \E uid \in Senders, row \in BookingRows : ApiInsertBooking(uid, row)
    \/ \E uid \in Senders, id \in BookingIds, patch \in BookingPatches : ApiUpdateBooking(uid, id, patch)
    \/ \E uid \in Senders, id \in BookingIds : ApiDeleteBooking(uid, id)

SpecRLS == InitRLS /\ [][NextRLS]_vars

\* a sign-up: the row of auth.users with the trigger on_auth_user_created.  An error the
\* trigger raises aborts the insert of the user.
InsertAuthUser(id, meta, raises) ==
    /\ id \notin DOMAIN auth_users
    /\ LET t == Trigger(id, meta, DOMAIN auth_users \cup {id}, raises)
       IN  /\ auth_users' = IF t.raised THEN auth_users
                            ELSE [u \in DOMAIN auth_users \cup {id} |->
                                     IF u = id THEN meta ELSE auth_users[u]]
           /\ profiles' = IF t.created /\ ~t.raised
                          THEN [u \in DOMAIN profiles \cup {id} |-> IF u = id THEN t.row ELSE profiles[u]]
                          ELSE profiles
           /\ last' = [Step("insert auth.users", id, ~t.raised, t.note) EXCEPT !.id = id]
    /\ UNCHANGED <<bookings, driver_trips, pageVars, catalog, migration, login>>

\* Login.handleLogin up to the call of signInWithPassword
handleLogin ==
    /\ login.at = "idle"
    /\ login' = [login EXCEPT !.loading = TRUE, !.error = null, !.at = "signIn", !.user = null]
    /\ last' = Step("handleLogin", null, TRUE, "signInWithPassword")
    /\ UNCHANGED <<dbVars, pageVars, catalog, migration, auth_users>>

\* signInWithPassword returns: an error (thrown, caught, shown; finally) or the user
handleLoginSignedIn(user) ==
    /\ login.at = "signIn"
    /\ user = null \/ user \in DOMAIN auth_users
    /\ login' = IF user = null
                THEN [login EXCEPT !.error = "Invalid login credentials", !.loading = FALSE, !.at = "idle"]
                ELSE [login EXCEPT !.user = user, !.at = "profile"]
    /\ last' = Step("handleLogin", user, user # null, IF user = null THEN "error" ELSE "select profile")
    /\ UNCHANGED <<dbVars, pageVars, catalog, migration, auth_users>>

\* the profile query returns (data is null when it failed or found no row), navigate, finally
handleLoginProfile(ok) ==
    /\ login.at = "profile"
    /\ LET role == IF ok /\ login.user \in DOMAIN profiles THEN profiles[login.user].role ELSE null
       IN  /\ login' = [login EXCEPT !.path = Navigate(role), !.loading = FALSE, !.at = "idle"]
           /\ last' = Step("handleLogin", login.user, ok, "navigate")
    /\ UNCHANGED <<dbVars, pageVars, catalog, migration, auth_users>>

\* the page is opened again
OpenLogin ==
    /\ login.at = "idle"
    /\ login # NoLogin
    /\ login' = NoLogin
    /\ last' = Step("OpenLogin", null, TRUE, "")
    /\ UNCHANGED <<dbVars, pageVars, catalog, migration, auth_users>>

\* sign-ins of the users there are, and of users who sign up with or without a profile
LoginMetadata == {m \in Metadata : m.full_name = null /\ m.phone_number = null /\ m.role \in {"driver", "owner"}}

InitLogin ==
    /\ InitDatabase
    /\ InitClients
    /\ InitSystem
    /\ sessions = {}

NextLogin ==
    \/ \E id \in NewUsers, meta \in LoginMetadata, raises \in BOOLEAN \X BOOLEAN : InsertAuthUser(id, meta, raises)
    \/ handleLogin
    \/ \E user \in Users \cup NewUsers \cup {null} : handleLoginSignedIn(user)
    \/ \E ok \in BOOLEAN : handleLoginProfile(ok)
    \/ OpenLogin

SpecLogin == InitLogin /\ [][NextLogin]_vars

(* ------------------------ the profiles table --------------------------- *)
\* "Users can insert their own profile.": with check (auth.uid() = id)
ProfileInsertPolicy(uid, id) == uid = id

\* "Users can update own profile.": using (auth.uid() = id), for the new row as well
ProfileUpdatePolicy(uid, id) == uid = id

\* update profiles set ... where id = id, sent by uid: rows the policy hides are not
\* reached; the new row keeps phone_number not null and a role of the type user_role
ApiUpdateProfile(uid, id, patch) ==
    /\ uid \in DOMAIN auth_users
    /\ LET reached == id \in DOMAIN profiles /\ ProfileUpdatePolicy(uid, id)
           new == IF reached THEN Patch(profiles[id], patch) ELSE NoProfile
           error == reached /\ (new.role \notin UserRole \/ new.phone_number = null)
       IN  /\ profiles' = IF reached /\ ~error THEN [profiles EXCEPT ![id] = new] ELSE profiles
           /\ last' = [Step("update profiles", uid, ~error,
                            IF error THEN "error" ELSE IF reached THEN "1 row" ELSE "0 rows")
                       EXCEPT !.id = id]
    /\ UNCHANGED <<bookings, driver_trips, pageVars, systemVars>>

\* insert into profiles sent by uid, as the fallback of Signup.handleSignup does
ApiInsertProfile(uid, id, row) ==
    /\ uid \in DOMAIN auth_users
    /\ LET error == ~ProfileInsertPolicy(uid, id) \/ ProfileInsertError(id, row, DOMAIN auth_users)
       IN  /\ profiles' = IF error THEN profiles
                          ELSE [u \in DOMAIN profiles \cup {id} |-> IF u = id THEN row ELSE profiles[u]]
           /\ last' = [Step("insert profiles", uid, ~error, IF error THEN "error" ELSE "1 row")
                       EXCEPT !.id = id]
    /\ UNCHANGED <<bookings, driver_trips, pageVars, systemVars>>

\* the metadata of a sign-up: any role may be sent to auth.signUp
SignupMetadata == {m \in Metadata : m.full_name = "Abebe" /\ m.phone_number = "0911"}

\* the users who send requests on profiles
ProfileSenders == {"a1", "c1", "u1"}

\* the values a request may put into role
RoleValues == UserRole \cup {"owner"}

InitRoles ==
    /\ InitDatabase
    /\ InitClients
    /\ InitSystem
    /\ sessions = {}

NextRoles ==
    \/ \E id \in ProfileSenders, meta \in SignupMetadata, raises \in BOOLEAN \X BOOLEAN :
          InsertAuthUser(id, meta, raises)
    \/ \E uid \in ProfileSenders : \E id \in {uid, "c1"}, role \in RoleValues :
          ApiUpdateProfile(uid, id, [role |-> role])
    \/ \E uid, id \in ProfileSenders, role \in RoleValues :
          ApiInsertProfile(uid, id, [role |-> role, full_name |-> "User", phone_number |-> "0000000000"])

SpecRoles == InitRoles /\ [][NextRoles]_vars

(* ---------------------- manual driver assignment ----------------------- *)
\* a driver who has a profile and no session
OtherDrivers == {"d2"}

\* the drivers list of the AdminDashboard: .from('profiles').eq('role', 'driver')
DriversListed == {p \in DOMAIN profiles : profiles[p].role = "driver"}

\* updateData of handleAssignDriver: the price is sent only when it is truthy
AssignDriverPatch(driverId, price) ==
    IF Truthy(price)
    THEN [assigned_driver_id |-> driverId, status |-> "assigned", price |-> price]
    ELSE [assigned_driver_id |-> driverId, status |-> "assigned"]

\* AdminDashboard.handleAssignDriver, from the select "Assign Driver Manually" of a
\* request of the customRequests list; on success fetchData follows
handleAssignDriver(a, r, driverId, price, netfail, okB, okT) ==
    /\ a \in Admins \cap sessions
    /\ pc[a] = "idle"
    /\ r \in DOMAIN customRequests[a]
    /\ driverId \in DriversListed
    /\ LET patch == AssignDriverPatch(driverId, price)
           error == netfail \/ BookingUpdateError(a, r, patch)
           rows == IF error THEN bookings ELSE BookingsUpdated(a, r, patch)
       IN  /\ bookings' = rows
           /\ last' = [Step("handleAssignDriver", a, ~error,
                            IF error THEN "Error assigning driver" ELSE "update bookings")
                       EXCEPT !.id = r]
           /\ customRequests' =
                 IF error THEN customRequests
                 ELSE Fetched(customRequests, a, okB,
                              [id \in {b \in DOMAIN rows : BookingSelectPolicy(a, rows[b])
                                                            /\ IsPendingRequest(rows[b])}
                                 |-> rows[id].seats_booked])
           /\ driverTrips' = IF error THEN driverTrips
                             ELSE Fetched(driverTrips, a, okT, AllTrips(a, driver_trips))
    /\ UNCHANGED <<profiles, driver_trips, customRequest, call, pc, sessions, systemVars>>

\* the database of the running application with a second driver signed up
InitManual ==
    /\ profiles = [u \in Users \cup OtherDrivers |->
                      IF u \in Users THEN InitProfiles[u]
                      ELSE [role |-> "driver", full_name |-> "User", phone_number |-> "0000000000"]]
    /\ bookings = Empty
    /\ driver_trips = [t \in TripIds |-> ScheduledTrip("d1", MaxSeats, 3)]
    /\ InitClients
    /\ InitSystem
    /\ sessions = {"a1", "c1"}

\* the requests of the list were fetched pending, with no price set
NextManual ==
    \/ \E u \in Customers, netfail \in BOOLEAN : handleCustomRequest(u, netfail)
    \/ \E a \in Admins, okB, okT \in BOOLEAN : fetchData(a, okB, okT)
    \/ \E a \in Admins, r \in BookingIds, t \in TripIds, seatsToAssign \in 0..1, netfail \in BOOLEAN :
          handleMatchRequest(a, r, t, seatsToAssign, 0, netfail)
    \/ \E a \in Admins, netfail, okR, okT \in BOOLEAN : handleMatchRequestTrip(a, netfail, okR, okT)
    \/ \E a \in Admins, r \in BookingIds, driverId \in Drivers \cup OtherDrivers, netfail, okB, okT \in BOOLEAN :
          handleAssignDriver(a, r, driverId, NullNum, netfail, okB, okT)

SpecManual == InitManual /\ [][NextManual]_vars

(* ------------------- matches on rows with updated_at ------------------- *)
\* updates of one trip row the specification follows
MaxUpdates == 2

\* updated_at timestamp default now(): the row as inserted
WithUpdatedAt(row) ==
    [f \in DOMAIN row \cup {"updated_at"} |-> IF f = "updated_at" THEN 0 ELSE row[f]]

InitFrame ==
    /\ profiles = InitProfiles
    /\ bookings = Empty
    /\ driver_trips = [t \in TripIds |-> WithUpdatedAt(ScheduledTrip("d1", MaxSeats, 3))]
    /\ InitClients
    /\ InitSystem
    /\ sessions \in Sessions

\* the trip was updated less than MaxUpdates times
FewUpdates(t) == driver_trips[t].updated_at < MaxUpdates

NextFrame ==
    \/ \E u \in Customers, netfail \in BOOLEAN : handleCustomRequest(u, netfail)
    \/ \E d \in Drivers \cap sessions : \E row \in OwnRequests(d) : ApiInsertBooking(d, row)
    \/ \E a \in Admins, okB, okT \in BOOLEAN : fetchData(a, okB, okT)
    \/ \E d \in Drivers, okR, okT \in BOOLEAN : fetchPendingRequests(d, okR, okT)
    \/ \E a \in Admins, r \in BookingIds, t \in TripIds, seatsToAssign \in 0..MaxSeats, netfail \in BOOLEAN :
          /\ FewUpdates(t)
          /\ handleMatchRequest(a, r, t, seatsToAssign, 0, netfail)
    \/ \E a \in Admins, netfail, okR, okT \in BOOLEAN : handleMatchRequestTrip(a, netfail, okR, okT)
    \/ \E d \in Drivers, r \in BookingIds, t \in TripIds, seats \in 0..MaxSeats, netfail \in BOOLEAN :
          /\ FewUpdates(t)
          /\ handleAssignRequest(d, r, t, seats, netfail)
    \/ \E d \in Drivers, netfail, okR, okT \in BOOLEAN : handleAssignRequestTrip(d, netfail, okR, okT)

SpecFrame == InitFrame /\ [][NextFrame]_vars


\* two trips of one driver: an admin matches a customer's requests to either
TwoTrips == {"t1", "t2"}

InitTwoTrips ==
    /\ profiles = InitProfiles
    /\ bookings = Empty
    /\ driver_trips = [t \in TwoTrips |-> ScheduledTrip("d1", MaxSeats, 3)]
    /\ InitClients
    /\ InitSystem
    /\ sessions = {"a1", "c1"}

NextTwoTrips ==
    \/ \E u \in Customers, netfail \in BOOLEAN : handleCustomRequest(u, netfail)
    \/ \E a \in Admins, okB, okT \in BOOLEAN : fetchData(a, okB, okT)
    \/ \E a \in Admins, r \in BookingIds, t \in TwoTrips, seatsToAssign \in 0..1, netfail \in BOOLEAN :
          handleMatchRequest(a, r, t, seatsToAssign, 0, netfail)
    \/ \E a \in Admins, netfail, okR, okT \in BOOLEAN : handleMatchRequestTrip(a, netfail, okR, okT)

SpecTwoTrips == InitTwoTrips /\ [][NextTwoTrips]_vars

\* the driver's list of pending requests, as the dashboard draws it
Min(a, b) == IF a < b THEN a ELSE b
Max(a, b) == IF a > b THEN a ELSE b

\* Math.min(availableSeats, request.seats_booked || 1)
MaxSeatsToAssign(trip, requested) == Min(AvailableSeats(trip), Or(requested, 1))

\* onChange of the seats field: Math.min(Math.max(1, parseInt(value) || 1), maxSeats)
AssignmentSeats(value, trip, requested) == Min(Max(1, Or(value, 1)), MaxSeatsToAssign(trip, requested))

\* assignmentSeats[seatKey] || Math.min(maxSeats, request.seats_booked || 1)
SelectedSeats(chosen, trip, requested) ==
    Or(chosen, Min(MaxSeatsToAssign(trip, requested), Or(requested, 1)))

\* the Assign button of a request on a trip that is scheduled and not full; the seats
\* field was left alone (value 0) or changed to a value
AssignClick(d, r, t, value, netfail) ==
    /\ d \in Drivers
    /\ r \in DOMAIN customRequests[d]
    /\ t \in DOMAIN driverTrips[d]
    /\ LET trip == driverTrips[d][t]
           requested == customRequests[d][r]
           chosen == IF value = 0 THEN 0 ELSE AssignmentSeats(value, trip, requested)
       IN  /\ trip.status = "scheduled"
           /\ AvailableSeats(trip) > 0
           /\ handleAssignRequest(d, r, t, SelectedSeats(chosen, trip, requested), netfail)

\* pending requests that name the driver, filed through the API with any seat count
RequestsFor(uid, driver) ==
    {[NoBooking EXCEPT !.customer_id = uid, !.assigned_driver_id = driver, !.seats_booked = n]
        : n \in {0 - 1, 1, MaxSeats}}

InitAssign ==
    /\ InitDatabase
    /\ InitClients
    /\ InitSystem
    /\ sessions = {"d1"}

NextAssign ==
    \/ \E uid \in {"c1", "d1"} : \E row \in RequestsFor(uid, "d1") : ApiInsertBooking(uid, row)
    \/ \E d \in Drivers, okR, okT \in BOOLEAN : fetchPendingRequests(d, okR, okT)
    \/ \E d \in Drivers, r \in BookingIds, t \in TripIds, value \in 0..MaxSeats, netfail \in BOOLEAN :
          AssignClick(d, r, t, value, netfail)
    \/ \E d \in Drivers, netfail, okR, okT \in BOOLEAN : handleAssignRequestTrip(d, netfail, okR, okT)

SpecAssign == InitAssign /\ [][NextAssign]_vars

\* sign-ups through the auth API, with any metadata; an insert of the trigger may raise
InitSignup ==
    /\ InitDatabase
    /\ InitClients
    /\ InitSystem
    /\ sessions = {}

NextSignup ==
    \E id \in NewUsers, meta \in Metadata, raises \in BOOLEAN \X BOOLEAN : InsertAuthUser(id, meta, raises)

SpecSignup == InitSignup /\ [][NextSignup]_vars

\* the migration file run twice by the database owner, on a database that has the first
\* schema and any of the objects an earlier installation may have left
Options == 1..6
OptionKind(i) == CASE i = 1 -> "policies" [] i = 2 -> "types" [] i = 3 -> "columns"
                   [] i = 4 -> "policies" [] i = 5 -> "notnull" [] i = 6 -> "functions"
OptionObject(i) == CASE i = 1 -> <<"bookings", "Admins can do everything on bookings">>
                     [] i = 2 -> "booking_type"
                     [] i = 3 -> <<"bookings", "customer_id">>
                     [] i = 4 -> <<"bookings", "Admins can view all bookings">>
                     [] i = 5 -> <<"profiles", "phone_number">>
                     [] i = 6 -> <<"update_updated_at_column", "initial">>

StartCatalog(chosen, withTrips) ==
    LET base == IF withTrips THEN CreateTripsTable(Run(BaseCatalog)).cat ELSE BaseCatalog
    IN  [k \in Kinds |-> base[k] \cup {OptionObject(i) : i \in {j \in chosen : OptionKind(j) = k}}]

InitMigration ==
    /\ profiles = InitProfiles
    /\ bookings = Empty
    /\ driver_trips = Empty
    /\ InitClients
    /\ sessions = {}
    /\ \E chosen \in SUBSET Options, withTrips \in BOOLEAN : catalog = StartCatalog(chosen, withTrips)
    /\ migration = NoMigration
    /\ auth_users = Empty
    /\ login = NoLogin

\* the owner starts a run of the file
BeginMigration ==
    /\ migration.step = 0
    /\ migration.run < 2
    /\ migration' = [migration EXCEPT !.run = @ + 1, !.step = 1]
    /\ UNCHANGED <<dbVars, pageVars, last, catalog, auth_users, login>>

\* the next step of the file
RunMigrationStep ==
    /\ migration.step \in 1..LastStep
    /\ LET s == MigrationStep(migration.step, [cat |-> catalog, error |-> migration.error])
           done == migration.step = LastStep
       IN  /\ catalog' = s.cat
           /\ migration' = [migration EXCEPT !.step = IF done THEN 0 ELSE @ + 1,
                                             !.error = s.error,
                                             !.first = IF done /\ migration.run = 1 THEN s.cat ELSE @]
    /\ UNCHANGED <<dbVars, pageVars, last, auth_users, login>>

\* the owner runs 20240102000000_fix_user_profile_creation.sql between two runs
RunFixUserProfileCreation ==
    /\ migration.step = 0
    /\ ~migration.fixed
    /\ LET s == FixUserProfileCreation([cat |-> catalog, error |-> migration.error])
       IN  /\ catalog' = s.cat
           /\ migration' = [migration EXCEPT !.error = s.error, !.fixed = TRUE]
    /\ UNCHANGED <<dbVars, pageVars, last, auth_users, login>>

NextMigration ==
    \/ BeginMigration
    \/ RunMigrationStep
    \/ RunFixUserProfileCreation

SpecMigration == InitMigration /\ [][NextMigration]_vars

(* ------------------------- the matching flow --------------------------- *)
\* client u ends its driver_trips update in this step
TripStepOf(u) == pc[u] = "trip" /\ pc'[u] = "idle"

\* client u ends its bookings update in this step and goes on to the trip
BookingStepOf(u) == pc[u] = "idle" /\ pc'[u] = "trip"

\* the bookings assigned to a trip
AssignedTo(t) == {b \in DOMAIN bookings : bookings[b].status = "assigned" /\ bookings[b].driver_trip_id = t}

\* C1: no conflict resolution.  A match whose driver_trips update succeeds leaves
\* booked_seats at the value of its own trip snapshot plus its own seats, whatever
\* another client wrote to the row since the snapshot was fetched: of two matches
\* started from the same snapshot only the last writer's seats are counted.
C1_LastWriterOnly ==
    [][\A u \in Clients :
          (TripStepOf(u) /\ last'.ok) =>
              driver_trips'[call[u].trip].booked_seats = Num(call[u].row.booked_seats) + call[u].seats]_vars

\* two requests are assigned to the trip with one seat each, both matches succeeded,
\* and the second write overwrote the first: booked_seats is 1
C1_Witness ==
    /\ last.note = "update driver_trips"
    /\ last.ok
    /\ last.raced
    /\ last.seats = 1
    /\ driver_trips[last.trip].booked_seats = 1
    /\ \E r1, r2 \in AssignedTo(last.trip) :
          /\ r1 # r2
          /\ bookings[r1].seats_booked = 1
          /\ bookings[r2].seats_booked = 1

\* C2: no transaction.  When the bookings update of a match has changed the row and the
\* driver_trips update then returns an error, the step leaves both tables as they are:
\* the booking stays assigned to the trip, booked_seats is not changed, and the handler
\* ends (no rollback, no second attempt).
C2_NoRollback ==
    [][\A u \in Clients :
          (TripStepOf(u) /\ call[u].applied /\ ~last'.ok) =>
              /\ bookings' = bookings
              /\ driver_trips' = driver_trips
              /\ bookings'[call[u].request].status = "assigned"
              /\ bookings'[call[u].request].driver_trip_id = call[u].trip
              /\ call'[u] = NoCall]_vars

\* a booking is assigned to the trip, the trip update failed, the trip counts no seat
C2_Witness ==
    /\ last.note = "Error updating trip"
    /\ last.id \in AssignedTo(last.trip)
    /\ bookings[last.id].seats_booked = last.seats
    /\ last.seats > 0
    /\ driver_trips[last.trip].booked_seats = 0
    /\ pc[last.uid] = "idle"

\* C3: the order of a match.  The trip is read from the client's list before the bookings
\* update; a client is at its driver_trips update only after a bookings update that
\* returned no error; booked_seats changes only in such a driver_trips update; and when
\* the bookings update returns an error the handler ends and the trips are unchanged.
C3_Order ==
    [][/\ \A u \in Clients :
            /\ BookingStepOf(u) => (~call'[u].error /\ call'[u].row = driverTrips[u][call'[u].trip])
            /\ pc'[u] = "trip" => ~call'[u].error
       /\ driver_trips' # driver_trips => \E u \in Clients : TripStepOf(u)
       /\ last'.note \in {"Error matching request", "Error assigning request"} =>
            (pc'[last'.uid] = "idle" /\ driver_trips' = driver_trips /\ bookings' = bookings)]_vars

\* a bookings update returned an error: the request is still pending, no seat is counted
C3_Witness ==
    /\ last.note \in {"Error matching request", "Error assigning request"}
    /\ pc[last.uid] = "idle"
    /\ \E b \in DOMAIN bookings : IsPendingRequest(bookings[b])
    /\ \A t \in DOMAIN driver_trips : driver_trips[t].booked_seats = 0

\* C4: not idempotent.  When a client repeats the match it has just completed (same
\* request, same trip, same seats, at least one seat) and the driver_trips update succeeds
\* again, booked_seats differs from its value after the first execution, which is the
\* value in the client's trip list.
C4_RepeatChanges ==
    [][\A u \in Clients :
          (TripStepOf(u) /\ call[u].repeat /\ call[u].seats > 0 /\ last'.ok) =>
              driver_trips'[call[u].trip].booked_seats # call[u].row.booked_seats]_vars

\* one request of one seat was matched twice: the trip counts two seats
C4_Witness ==
    /\ last.note = "update driver_trips"
    /\ last.ok
    /\ last.repeat
    /\ last.seats = 1
    /\ AssignedTo(last.trip) = {last.id}
    /\ bookings[last.id].seats_booked = 1
    /\ driver_trips[last.trip].booked_seats = 2

\* C5: the price of a match.  A bookings update of a match that changes the row writes
\* price = seats * price_per_seat of the trip in the client's list.
C5_Price ==
    [][\A u \in Clients :
          (BookingStepOf(u) /\ call'[u].applied) =>
              bookings'[call'[u].request].price
                  = call'[u].seats * driverTrips[u][call'[u].trip].price_per_seat]_vars

\* two seats were matched from a list that still showed 3 a seat while the trip costs 5
C5_Witness ==
    /\ last.note = "update bookings"
    /\ last.seats = 2
    /\ bookings[last.id].price = 6
    /\ driver_trips[last.trip].price_per_seat = 5

(* --------------------------- the trips table --------------------------- *)
\* available_seats > 0 and 0 <= booked_seats <= available_seats, as numbers
SeatBounds(row) ==
    /\ row.available_seats # NullNum
    /\ row.booked_seats # NullNum
    /\ row.available_seats > 0
    /\ 0 <= row.booked_seats
    /\ row.booked_seats <= row.available_seats

\* C6: every row of driver_trips satisfies available_seats > 0 and
\* 0 <= booked_seats <= available_seats after every step, and an insert or update the
\* database answers with an error leaves the table as it was.
C6_SeatBounds ==
    [][/\ \A t \in DOMAIN driver_trips' : SeatBounds(driver_trips'[t])
       /\ (last'.op \in {"insert driver_trips", "update driver_trips"} /\ ~last'.ok) =>
              driver_trips' = driver_trips]_vars

(* -------------------------- the request form --------------------------- *)
\* the seat count of an entry: its integer value, or 1 when that is no non-zero integer
SeatCount(text) == LET n == parseInt(text) IN IF n = NaN \/ n = 0 THEN 1 ELSE n

\* C7: a request submitted through handleCustomRequest is stored as one new booking with
\* customer_id the submitting user, booking_type custom_request, status pending, no trip,
\* no driver, and seats_booked the entered seat count, 1 when the entry is no non-zero
\* integer; the other bookings are untouched.
C7_CustomRequest ==
    [][\A u \in Customers :
          (last'.op = "handleCustomRequest" /\ last'.uid = u /\ last'.ok) =>
              /\ last'.id \notin DOMAIN bookings
              /\ DOMAIN bookings' = DOMAIN bookings \cup {last'.id}
              /\ \A b \in DOMAIN bookings : bookings'[b] = bookings[b]
              /\ bookings'[last'.id] =
                    [customer_id |-> u, booking_type |-> "custom_request", status |-> "pending",
                     assigned_driver_id |-> null, driver_trip_id |-> null,
                     seats_booked |-> SeatCount(customRequest[u]), price |-> NullNum]]_vars

\* a request for two seats and a request whose entry was no seat count are both stored
C7_Witness ==
    /\ last.op = "handleCustomRequest"
    /\ last.ok
    /\ bookings[last.id].customer_id = last.uid
    /\ \E b \in DOMAIN bookings : bookings[b].seats_booked = 2
    /\ \E b \in DOMAIN bookings : bookings[b].seats_booked = 1

(* ------------------------- the driver's matches ------------------------ *)
\* C8: a driver can match a pending custom request.  After a fetch that succeeded, the
\* driver's list of pending requests holds every pending custom request of the table, and
\* when the driver's bookings update of a match returns no error, the request is assigned
\* to the trip and to the driver.
C8_DriverMatches ==
    [][\A d \in Drivers :
          /\ (last'.op = "fetchPendingRequests" /\ last'.uid = d /\ last'.ok) =>
                DOMAIN customRequests'[d] = {b \in DOMAIN bookings' : IsPendingRequest(bookings'[b])}
          /\ BookingStepOf(d) =>
                /\ bookings'[call'[d].request].status = "assigned"
                /\ bookings'[call'[d].request].driver_trip_id = call'[d].trip
                /\ bookings'[call'[d].request].assigned_driver_id = d]_vars

(* ----------------------- the policies of bookings ---------------------- *)
Role(uid) == profiles[uid].role

C10_UpdateDelete ==
    [][/\ (last'.op = "update bookings" /\ bookings' # bookings) =>
            /\ Role(last'.uid) = "admin" \/ bookings[last'.id].assigned_driver_id = last'.uid
            /\ Role(last'.uid) # "customer"
       /\ (last'.op = "delete bookings" /\ bookings' # bookings) => Role(last'.uid) = "admin"]_vars

(* --------------------- the policies of driver_trips -------------------- *)
\* C11: a select shows a user exactly the trips that are scheduled, or whose driver_id is
\* the user, or all trips when the user is an admin; an insert stores a trip only with
\* driver_id the inserting user; an update changes a trip only when the user is the
\* trip's driver_id or an admin.
C11_TripPolicies ==
    [][/\ last'.op = "select driver_trips" =>
            last'.seen = {t \in DOMAIN driver_trips :
                             \/ driver_trips[t].status = "scheduled"
                             \/ driver_trips[t].driver_id = last'.uid
                             \/ Role(last'.uid) = "admin"}
       /\ (last'.op = "insert driver_trips" /\ driver_trips' # driver_trips) =>
            /\ last'.trip \notin DOMAIN driver_trips
            /\ driver_trips'[last'.trip].driver_id = last'.uid
       /\ (last'.op = "update driver_trips" /\ driver_trips' # driver_trips) =>
            \/ driver_trips[last'.trip].driver_id = last'.uid
            \/ Role(last'.uid) = "admin"]_vars

\* a completed trip of the driver is hidden from the customer who reads the table
C11_Witness ==
    /\ last.op = "select driver_trips"
    /\ last.uid = "c1"
    /\ last.seen = {}
    /\ \E t \in DOMAIN driver_trips :
          driver_trips[t].status = "completed" /\ driver_trips[t].driver_id = "d1"

(* ----------------------------- the migration --------------------------- *)
\* C12: the shared-ride migration is idempotent.  No step of the second run of the file
\* raises an error, and when the second run ends the catalog (types, tables, columns,
\* not-null columns, policies, constraints, indexes, triggers, functions) is the catalog
\* the first run left.
C12_Idempotent ==
    [][migration.run = 2 =>
          /\ ~migration'.error
          /\ (migration.step = LastStep /\ migration'.step = 0) => catalog' = migration.first]_vars

\* the second run has ended on a database whose old admin policy the first run dropped
\* and whose sign-up function was replaced between the runs
C12_Witness ==
    /\ migration.run = 2
    /\ migration.step = 0
    /\ migration.fixed
    /\ <<"handle_new_user", "20240101">> \in catalog.functions
    /\ <<"bookings", "Admins can do everything on bookings">> \notin catalog.policies
    /\ <<"bookings", "Admins can delete bookings">> \in catalog.policies
    /\ "driver_trips" \in catalog.tables

C14_UserCreated ==
    [][last'.op = "insert auth.users" =>
          LET id == last'.id
          IN  /\ last'.ok
              /\ id \in DOMAIN auth_users' \ DOMAIN auth_users
              /\ last'.note \in {"profile created", "fallback profile created", "no profile created"}
              /\ last'.note = "fallback profile created" =>
                    (id \in DOMAIN profiles' /\ profiles'[id].role = "customer")
              /\ last'.note = "no profile created" => id \notin DOMAIN profiles'
              /\ DOMAIN profiles' \subseteq DOMAIN profiles \cup {id}]_vars

\* a user who signed up as admin has the profile of the second insert, another user has
\* no profile
C14_Witness ==
    /\ last.op = "insert auth.users"
    /\ \E u, v \in NewUsers :
          /\ u \in DOMAIN auth_users /\ v \in DOMAIN auth_users
          /\ auth_users[u].role = "admin"
          /\ u \in DOMAIN profiles
          /\ profiles[u].role = "customer"
          /\ v \notin DOMAIN profiles

(* ------------------------------- sign-in ------------------------------- *)
\* C15: where handleLogin goes.  When the sign-in succeeded, the page navigates to /admin
\* if the role the profile query returned is admin, to /driver if it is driver, and to
\* /customer otherwise, a missing profile included; when the sign-in returned an error
\* the page does not navigate and shows the error; whenever handleLogin has ended,
\* loading is false.
C15_Login ==
    [][/\ (login.at = "profile" /\ login'.at = "idle") =>
            LET found == last'.ok /\ login.user \in DOMAIN profiles
            IN  login'.path = IF found /\ profiles[login.user].role = "admin" THEN "/admin"
                              ELSE IF found /\ profiles[login.user].role = "driver" THEN "/driver"
                              ELSE "/customer"
       /\ (login.at = "signIn" /\ login'.at = "idle") =>
            /\ login'.path = login.path
            /\ login'.error # null
       /\ login'.at = "idle" => ~login'.loading
       /\ login'.path # login.path => (login.at = "profile" \/ login' = NoLogin)]_vars

\* a user who has no profile signed in and is at /customer
C15_Witness ==
    /\ login.at = "idle"
    /\ login.path = "/customer"
    /\ ~login.loading
    /\ login.user \in DOMAIN auth_users \ DOMAIN profiles
    /\ last.ok

(* --------------------------- seats of a trip --------------------------- *)
\* the sum of seats_booked over a set of bookings
RECURSIVE SeatsOf(_)
SeatsOf(S) ==
    IF S = {} THEN 0
    ELSE LET b == CHOOSE x \in S : TRUE IN Num(bookings[b].seats_booked) + SeatsOf(S \ {b})

\* the seats of the bookings whose driver_trip_id is the trip
SeatsBookedOn(t) == SeatsOf({b \in DOMAIN bookings : bookings[b].driver_trip_id = t})

\* C16: no trip is overbooked.  In every state, for every trip, the seats of the
\* bookings whose driver_trip_id is the trip are at most the trip's available_seats.
C16_NoOverbooking ==
    \A t \in DOMAIN driver_trips : SeatsBookedOn(t) <= driver_trips[t].available_seats

\* C17: seats are conserved.  In every state where no match is in flight, booked_seats of
\* every trip is the sum of the seats of the bookings whose driver_trip_id is the trip.
C17_SeatsConserved ==
    (\A u \in Clients : pc[u] = "idle") =>
        \A t \in DOMAIN driver_trips : Num(driver_trips[t].booked_seats) = SeatsBookedOn(t)

\* C18: a match whose guards fail writes nothing.  A step of a match handler changes
\* the bookings only when the request and the trip are in the client's lists and the
\* seats are at most the seats left on the trip of the list and at most the seats of the
\* request in the list; a handler goes on to its driver_trips update only after such a
\* step, and only a handler that did changes driver_trips.
C18_GuardsFail ==
    [][\A u \in Clients :
          LET passed == /\ last'.id \in DOMAIN customRequests[u]
                        /\ last'.trip \in DOMAIN driverTrips[u]
                        /\ last'.seats <= driverTrips[u][last'.trip].available_seats
                                              - driverTrips[u][last'.trip].booked_seats
                        /\ last'.seats <= customRequests[u][last'.id]
          IN  /\ (pc[u] = "idle" /\ last'.uid = u
                        /\ last'.op \in {"handleMatchRequest", "handleAssignRequest"}) =>
                    /\ (bookings' # bookings \/ pc'[u] = "trip") => passed
                    /\ driver_trips' = driver_trips
              /\ (pc[u] = "trip" /\ pc'[u] = "idle") =>
                    /\ call[u].seats <= call[u].row.available_seats - call[u].row.booked_seats
                    /\ call[u].request \in DOMAIN customRequests[u]
                    /\ call[u].seats <= customRequests[u][call[u].request]]_vars

\* a match of two seats was refused for a request of one seat: the request is pending,
\* the trip counts no seat
C18_Witness ==
    /\ last.note = "Cannot assign more seats than requested"
    /\ pc[last.uid] = "idle"
    /\ \E b \in DOMAIN bookings : IsPendingRequest(bookings[b]) /\ bookings[b].seats_booked = 1
    /\ \A t \in DOMAIN driver_trips : driver_trips[t].booked_seats = 0
    /\ \A b \in DOMAIN bookings : bookings[b].driver_trip_id = null

\* C19: the booked_seats a match writes.  The value a match sends to driver_trips, the
\* booked_seats of its trip snapshot plus its seats, is at least 1 and at most the trip's
\* available_seats, and the row with that value passes the table's checks.
C19_WrittenSeats ==
    [][\A u \in Clients :
          TripStepOf(u) =>
              LET t == call[u].trip
                  written == Num(call[u].row.booked_seats) + call[u].seats
              IN  /\ 1 <= written
                  /\ written <= driver_trips[t].available_seats
                  /\ TripChecks(Patch(driver_trips[t], [booked_seats |-> written]))]_vars

\* C20: a request is matched to one trip at most.  A match leaves the driver_trip_id of a
\* booking that has one as it is, and a match handler goes on to add the seats of a
\* request to a trip only when the request has no trip or has that trip.
C20_OneTrip ==
    [][/\ last'.op \in {"handleMatchRequest", "handleAssignRequest"} =>
            \A b \in DOMAIN bookings :
                bookings[b].driver_trip_id # null =>
                    bookings'[b].driver_trip_id = bookings[b].driver_trip_id
       /\ \A u \in Clients :
            BookingStepOf(u) => bookings[call'[u].request].driver_trip_id \in {null, call'[u].trip}]_vars

(* ------------------------- the frame of a match ------------------------ *)
\* row new differs from row old in no column outside cols
Frame(old, new, cols) ==
    /\ DOMAIN new = DOMAIN old
    /\ \A f \in DOMAIN old \ cols : new[f] = old[f]

\* the columns a match sets on the booking
MatchColumns == {"driver_trip_id", "status", "seats_booked", "price", "assigned_driver_id"}

\* a bookings update of a match that changes the row sets the columns of the match and
\* no other, and leaves the trip alone; a driver_trips update of a match that succeeds
\* changes no column of the trip outside cols, and leaves the booking alone
MatchFrame(cols) ==
    \A u \in Clients :
        /\ (BookingStepOf(u) /\ call'[u].applied) =>
              LET r == call'[u].request
                  t == call'[u].trip
              IN  /\ bookings'[r].driver_trip_id = t
                  /\ bookings'[r].status = "assigned"
                  /\ bookings'[r].seats_booked = call'[u].seats
                  /\ bookings'[r].assigned_driver_id
                        = IF u \in Admins THEN driver_trips[t].driver_id ELSE u
                  /\ Frame(bookings[r], bookings'[r], MatchColumns)
                  /\ driver_trips'[t] = driver_trips[t]
        /\ (TripStepOf(u) /\ last'.ok) =>
              /\ Frame(driver_trips[call[u].trip], driver_trips'[call[u].trip], cols)
              /\ bookings'[call[u].request] = bookings[call[u].request]

\* C21 as stated: a successful match sets on the booking exactly driver_trip_id,
\* status, seats_booked, price and assigned_driver_id, and leaves every column of the
\* trip other than booked_seats unchanged.
C21_OnlyBookedSeats == [][MatchFrame({"booked_seats"})]_vars

\* C21: the frame of a successful match.  The booking gets driver_trip_id = the trip,
\* status = 'assigned', seats_booked = the seats assigned, price, and
\* assigned_driver_id = the trip's driver (admin flow) or the acting driver (driver
\* flow), every other column of the booking is unchanged, and the trip changes in
\* booked_seats and in updated_at, which the trigger of the table sets, only.
C21_Frame == [][MatchFrame({"booked_seats", "updated_at"})]_vars

\* an admin matched one seat of a request for two: the booking is on the trip, the
\* trip counts the seat and its updated_at moved
C21_Witness ==
    /\ last.op = "handleMatchRequest"
    /\ last.note = "update driver_trips"
    /\ last.ok
    /\ last.seats = 1
    /\ bookings[last.id].driver_trip_id = last.trip
    /\ bookings[last.id].assigned_driver_id = driver_trips[last.trip].driver_id
    /\ bookings[last.id].seats_booked = 1
    /\ driver_trips[last.trip].booked_seats = 1
    /\ driver_trips[last.trip].updated_at = 1

(* ----------------------- the driver of a booking ----------------------- *)
\* C22: every booking that has a driver_trip_id has assigned_driver_id equal to the
\* driver_id of that trip, whatever the order of matches and manual driver assignments.
C22_TripDriver ==
    \A b \in DOMAIN bookings :
        bookings[b].driver_trip_id # null =>
            /\ bookings[b].driver_trip_id \in DOMAIN driver_trips
            /\ bookings[b].assigned_driver_id = driver_trips[bookings[b].driver_trip_id].driver_id

(* --------------------------- the admin role ---------------------------- *)
\* C23: a profile's role becomes 'admin' only through an action of an existing admin:
\* no sign-up, and no request the policies permit to a customer or a driver, creates
\* a profile with role 'admin' or turns a profile into one.
C23_AdminOnlyByAdmin ==
    [][\A p \in DOMAIN profiles' :
          (/\ profiles'[p].role = "admin"
           /\ ~(p \in DOMAIN profiles /\ profiles[p].role = "admin"))
             => /\ last'.op # "insert auth.users"
                /\ IsAdmin(last'.uid)]_vars

====
